---- MODULE Spec2Model ----
(***************************************************************************)
(* Model of skills/aegis-architect/scaffold_feature.py: the Name           *)
(* Normalizer, the Template Renderer, the Scaffolder, the Aggregator       *)
(* Updater and the CLI driver, over a filesystem of text files.            *)
(*                                                                         *)
(* A Python str is a sequence of one-character strings.  A file holds the  *)
(* characters that were written to it; reading decodes them the way        *)
(* Path.read_text does (universal newlines).                               *)
(***************************************************************************)
EXTENDS Naturals, Sequences, FiniteSets, TLC

VARIABLES
    fs,          \* regular files of the filesystem: path -> characters on disk
    dirs,        \* directories of the filesystem: set of paths
    template,    \* SpecRender: the template text handed to render_template
    pattern,     \* SpecRender: a File Spec's output pattern
    context,     \* SpecRender: the render context, a dict in insertion order
    rendered,    \* SpecRender: result of render_template, or None
    renderedPath,\* SpecRender: result of the output-path loop, or None
    uArgs,       \* SpecUpd: arguments of the last update_mod_files call
    uPrevArgs,   \* SpecUpd: arguments of the call before it
    uRet,        \* SpecUpd: list returned by the last call
    uPre,        \* SpecUpd: fs and dirs as they were when the last call began
    uAccessed,   \* SpecUpd: paths the last call looked at or wrote
    uCalls,      \* SpecUpd: number of calls made
    uFresh,      \* SpecUpd: the run began with no aggregator file
    registry,    \* SpecCli: entries of the archetypes directory
    cArgs,       \* SpecCli: parsed command line of the current run
    cpc,         \* SpecCli: position of the current run inside main()
    cIdx,        \* SpecCli: index of the File Spec the loop is at
    generated,   \* SpecCli: scaffold_feature's dict, layer -> path
    written,     \* SpecCli: File Spec indices written by this run, in order
    cOut,        \* SpecCli: what the run printed and how it exited
    cSnap,       \* SpecCli: fs when scaffold_feature returned or raised
    cPrev,       \* SpecCli: arguments and result of the previous run
    cRuns,       \* SpecCli: number of runs started
    inst         \* SpecConc: the concurrent update_mod_files instances

vars == <<fs, dirs, template, pattern, context, rendered, renderedPath,
          uArgs, uPrevArgs, uRet, uPre, uAccessed, uCalls, uFresh,
          registry, cArgs, cpc, cIdx, generated, written, cOut, cSnap,
          cPrev, cRuns, inst>>

fsVars == <<fs, dirs>>
renderVars == <<template, pattern, context, rendered, renderedPath>>
updVars == <<uArgs, uPrevArgs, uRet, uPre, uAccessed, uCalls, uFresh>>
cliVars == <<registry, cArgs, cpc, cIdx, generated, written, cOut, cSnap,
             cPrev, cRuns>>

None == "None"

(***************************************************************************)
(* Python str operations                                                   *)
(***************************************************************************)

\* s[i:i+len(pat)] == pat, positions counted from 1
StartsAt(s, pat, i) ==
    /\ i + Len(pat) <= Len(s) + 1
    /\ SubSeq(s, i, i + Len(pat) - 1) = pat

\* pat in s
Contains(s, pat) == \E i \in 1..(Len(s) + 1) : StartsAt(s, pat, i)

RECURSIVE ReplaceFrom(_, _, _, _)
ReplaceFrom(s, old, new, i) ==
    IF i > Len(s) THEN <<>>
    ELSE IF StartsAt(s, old, i)
         THEN new \o ReplaceFrom(s, old, new, i + Len(old))
         ELSE <<s[i]>> \o ReplaceFrom(s, old, new, i + 1)

\* s.replace(old, new) for a non-empty old: every non-overlapping occurrence,
\* found left to right in one pass
StrReplace(s, old, new) == ReplaceFrom(s, old, new, 1)

LowerOf == [c \in {"A", "B", "M"} |->
               CASE c = "A" -> "a" [] c = "B" -> "b" [] c = "M" -> "m"]
UpperOf == [c \in {"a", "b", "m"} |->
               CASE c = "a" -> "A" [] c = "b" -> "B" [] c = "m" -> "M"]

LowerChar(c) == IF c \in DOMAIN LowerOf THEN LowerOf[c] ELSE c
UpperChar(c) == IF c \in DOMAIN UpperOf THEN UpperOf[c] ELSE c

\* s.lower()
StrLower(s) == [i \in 1..Len(s) |-> LowerChar(s[i])]

\* s.capitalize(): first character upper-cased, the rest lower-cased
Capitalize(s) ==
    [i \in 1..Len(s) |-> IF i = 1 THEN UpperChar(s[i]) ELSE LowerChar(s[i])]

Whitespace == {" ", "\t", "\n", "\r"}

RECURSIVE LStrip(_)
LStrip(s) ==
    IF s # <<>> /\ Head(s) \in Whitespace THEN LStrip(Tail(s)) ELSE s

RECURSIVE RStrip(_)
RStrip(s) ==
    IF s # <<>> /\ s[Len(s)] \in Whitespace
    THEN RStrip(SubSeq(s, 1, Len(s) - 1))
    ELSE s

\* s.strip()
Strip(s) == RStrip(LStrip(s))

RECURSIVE SplitFrom(_, _, _, _)
SplitFrom(s, sep, i, word) ==
    IF i > Len(s) THEN <<word>>
    ELSE IF s[i] = sep
         THEN <<word>> \o SplitFrom(s, sep, i + 1, <<>>)
         ELSE SplitFrom(s, sep, i + 1, Append(word, s[i]))

\* s.split(sep) for a one-character sep
Split(s, sep) == SplitFrom(s, sep, 1, <<>>)

RECURSIVE Join(_)
Join(words) ==
    IF words = <<>> THEN <<>> ELSE Head(words) \o Join(Tail(words))

(***************************************************************************)
(* Name Normalizer                                                         *)
(***************************************************************************)

to_pascal_case(snake_str) ==
    LET words == Split(snake_str, "_")
    IN  Join([i \in 1..Len(words) |-> Capitalize(words[i])])

to_snake_case(name) ==
    StrReplace(StrReplace(StrLower(name), <<"-">>, <<"_">>), <<" ">>, <<"_">>)

(***************************************************************************)
(* Template Renderer                                                       *)
(***************************************************************************)

\* '{{' + key + '}}'
Token(key) == <<"{", "{">> \o key \o <<"}", "}">>

RECURSIVE RenderFrom(_, _, _)
RenderFrom(result, ctx, k) ==
    IF k > Len(ctx) THEN result
    ELSE RenderFrom(StrReplace(result, Token(ctx[k][1]), ctx[k][2]), ctx, k + 1)

\* One key after another, in the dict's order, each over the result so far.
render_template(tmpl, ctx) == RenderFrom(tmpl, ctx, 1)

\* The loop of scaffold_feature that fills in a File Spec's output pattern.
RenderOutputPath(output, ctx) == RenderFrom(output, ctx, 1)

\* context = {'name': ..., 'pascal_name': ..., 'description': ...}
BuildContext(name, description) ==
    LET snake_name == to_snake_case(name)
    IN  << <<<<"n", "a", "m", "e">>, snake_name>>,
           <<<<"p", "a", "s", "c", "a", "l", "_", "n", "a", "m", "e">>, to_pascal_case(snake_name)>>,
           <<<<"d", "e", "s", "c", "r", "i", "p", "t", "i", "o", "n">>, description>> >>

(***************************************************************************)
(* Bounds and inputs                                                       *)
(***************************************************************************)

MaxCalls == 2     \* update_mod_files calls in one behaviour of SpecUpd
MaxRuns == 2      \* runs of main() in one behaviour of SpecCli
MaxPieces == 2    \* pieces a template of SpecRender is put together from

\* the set of elements of a sequence
Range(s) == {s[i] : i \in DOMAIN s}

\* Template Renderer inputs
Pieces == {<<"{", "{", "n", "a", "m", "e", "}", "}">>, <<"{", "{", "d", "e", "s", "c", "r", "i", "p", "t", "i", "o", "n", "}", "}">>, <<"{", "{", "p", "a", "s", "c", "a", "l", "_", "n", "a", "m", "e", "}", "}">>,
           <<"{", "{", "o", "t", "h", "e", "r", "}", "}">>, <<"x">>, <<"{">>, <<"}", "}">>}
Templates ==
    {Join(ps) : ps \in UNION {[1..k -> Pieces] : k \in 0..MaxPieces}}
Patterns == {<<"s", "r", "c", "/", "{", "{", "n", "a", "m", "e", "}", "}", ".", "r", "s">>, <<"{", "{", "p", "a", "s", "c", "a", "l", "_", "n", "a", "m", "e", "}", "}", "/", "{", "{", "d", "e", "s", "c", "r", "i", "p", "t", "i", "o", "n", "}", "}">>}
RenderNames == {<<"a", "b">>, <<"A", "-", "b">>, <<"{", "{", "d", "e", "s", "c", "r", "i", "p", "t", "i", "o", "n", "}", "}">>}
RenderDescriptions == {<<"x">>, <<"{", "{", "n", "a", "m", "e", "}", "}">>}

\* Aggregator Updater inputs
UpdTargets == {<<"t">>, <<"u">>}
UpdNames == {<<"a", "b">>, <<"A", "-", "b">>, <<"a", " ", "b">>, <<"a", ";", "b">>, <<"a">>, <<"a", "\r", "b">>}
ArchetypeNames == {"rust_hexagonal", "rust_cli_simple", "python_script"}
ConcTarget == <<"t">>
ConcNames == {<<"a", "b">>, <<"A", "-", "b">>, <<"m">>}

\* CLI inputs
CliTarget == <<"t">>
CliNames == {<<"a", "b">>, <<"A", "-", "b">>}

(***************************************************************************)
(* Filesystem: pathlib and open()                                          *)
(***************************************************************************)

\* What text-mode writing stores: '\n' is written as os.linesep, which is
\* '\n' here; every other character is stored as it is.
EncodeText(text) == text

RECURSIVE DecodeFrom(_, _)
DecodeFrom(data, i) ==
    IF i > Len(data) THEN <<>>
    ELSE IF data[i] = "\r"
         THEN <<"\n">> \o DecodeFrom(data,
                  IF i < Len(data) /\ data[i + 1] = "\n" THEN i + 2 ELSE i + 1)
         ELSE <<data[i]>> \o DecodeFrom(data, i + 1)

\* What text-mode reading returns (newline=None): '\r\n' and a lone '\r'
\* both read as '\n'.
ReadText(data) == DecodeFrom(data, 1)

\* a / b
PathJoin(a, b) == a \o <<"/">> \o b

\* path.parent and its ancestors
Parents(path) ==
    {SubSeq(path, 1, j - 1) : j \in {i \in 2..Len(path) : path[i] = "/"}}

\* path.exists()
PathExists(files, directories, path) ==
    path \in DOMAIN files \/ path \in directories

\* path.parent.mkdir(parents=True, exist_ok=True) succeeds unless an
\* ancestor is a regular file
MkdirOk(files, path) == \A d \in Parents(path) : d \notin DOMAIN files

MkdirParents(directories, path) == directories \cup Parents(path)

\* open(path, 'w') succeeds unless path is a directory or its parent is missing
WriteOk(directories, path) ==
    path \notin directories /\ Parents(path) \subseteq directories

\* A write that opens the file for appending
WriteTextAppending(files, path, text) ==
    [p \in DOMAIN files \cup {path} |->
        IF p = path
        THEN (IF p \in DOMAIN files THEN files[p] ELSE <<>>) \o text
        ELSE files[p]]

\* path.write_text(text): create or truncate, then write
WriteText(files, path, text) ==
    [p \in DOMAIN files \cup {path} |->
        IF p = path THEN EncodeText(text) ELSE files[p]]

\* open(path, 'a').write(text): write at the end of what is there
AppendText(files, path, text) ==
    [p \in DOMAIN files \cup {path} |->
        IF p = path
        THEN (IF p \in DOMAIN files THEN files[p] ELSE <<>>) \o EncodeText(text)
        ELSE files[p]]

(***************************************************************************)
(* Aggregator Updater                                                      *)
(***************************************************************************)

\* A guard that takes every Rust archetype for the layered one
IsHexagonalByPrefix(archetype) ==
    archetype \in {"rust_hexagonal", "rust_cli_simple"}

\* archetype != 'rust_hexagonal' is the early return
IsHexagonal(archetype) == archetype = "rust_hexagonal"

ModFiles(target_path, snake_name) ==
    << <<"domain", PathJoin(target_path, <<"s", "r", "c", "/", "d", "o", "m", "a", "i", "n", "/", "m", "o", "d", ".", "r", "s">>), snake_name>>,
       <<"ports", PathJoin(target_path, <<"s", "r", "c", "/", "p", "o", "r", "t", "s", "/", "m", "o", "d", ".", "r", "s">>),
            snake_name \o <<"_", "p", "o", "r", "t">>>>,
       <<"adapters", PathJoin(target_path, <<"s", "r", "c", "/", "a", "d", "a", "p", "t", "e", "r", "s", "/", "m", "o", "d", ".", "r", "s">>),
            snake_name \o <<"_", "a", "d", "a", "p", "t", "e", "r">>>> >>

\* f'pub mod {mod_name};\n'
ModLine(mod_name) == <<"p", "u", "b", " ", "m", "o", "d", " ">> \o mod_name \o <<";", "\n">>

\* A check that never finds the line
LineMissingAlways(content, mod_line) == TRUE

\* mod_line.strip() not in content
LineMissing(content, mod_line) == ~Contains(content, Strip(mod_line))

\* One iteration of the loop over mod_files.  st carries the filesystem, the
\* list built so far, the paths looked at, and the exception raised, if any.
UpdateOne(st, entry) ==
    LET mod_path == entry[2]
        mod_line == ModLine(entry[3])
        seen     == [st EXCEPT !.accessed = @ \cup {mod_path}]
    IN  IF st.error # None THEN st
        ELSE IF PathExists(st.fs, st.dirs, mod_path)
        THEN IF mod_path \in st.dirs
             THEN [seen EXCEPT !.error = "IsADirectoryError"]
             ELSE IF LineMissing(ReadText(st.fs[mod_path]), mod_line)
                  THEN [seen EXCEPT !.fs = AppendText(@, mod_path, mod_line),
                                    !.updated = Append(@, mod_path)]
                  ELSE seen
        ELSE IF ~MkdirOk(st.fs, mod_path)
             THEN [seen EXCEPT !.error = "FileExistsError"]
             ELSE [seen EXCEPT !.dirs = MkdirParents(@, mod_path),
                               !.fs = WriteText(@, mod_path, mod_line),
                               !.updated = Append(@, mod_path)]

RECURSIVE UpdateLoop(_, _, _)
UpdateLoop(st, mod_files, i) ==
    IF i > Len(mod_files) THEN st
    ELSE UpdateLoop(UpdateOne(st, mod_files[i]), mod_files, i + 1)

\* The whole call: the filesystem after it, the list it returns (updated),
\* the paths it looked at, and the exception it raised, if any.
update_mod_files(files, directories, target_dir, name, archetype) ==
    LET st0 == [fs |-> files, dirs |-> directories, updated |-> <<>>,
                accessed |-> {}, error |-> None]
    IN  IF ~IsHexagonal(archetype) THEN st0
        ELSE UpdateLoop(st0, ModFiles(target_dir, to_snake_case(name)), 1)

(***************************************************************************)
(* Archetype Registry                                                      *)
(*                                                                         *)
(* registry maps each entry of the archetypes directory to                 *)
(*   [isDir, hasManifest, manifest, templates]: manifest is the content    *)
(* of its manifest.json, [name, files], when hasManifest; templates maps   *)
(* the names of the template files that exist in the entry to their text.  *)
(***************************************************************************)

NoError == [type |-> "None"]

\* A check that looks for the archetype's directory only
ArchetypeDirExists(reg, name) ==
    name \in DOMAIN reg /\ reg[name].isDir

\* manifest_path.exists() for get_archetypes_dir() / name / 'manifest.json'
ManifestExists(reg, name) ==
    /\ name \in DOMAIN reg
    /\ reg[name].isDir
    /\ reg[name].hasManifest

\* Names collected by list_archetypes: one manifest per subdirectory that
\* holds one.
AvailableNames(reg) ==
    {reg[d].manifest.name : d \in {e \in DOMAIN reg : ManifestExists(reg, e)}}

\* iterdir() yields the entries in an order the platform chooses.
Orderings(S) ==
    {s \in [1..Cardinality(S) -> S] : \A x \in S : \E i \in DOMAIN s : s[i] = x}

\* [a['name'] for a in list_archetypes()]
list_archetypes(reg) == Orderings(AvailableNames(reg))

\* load_archetype: the manifest, or the ValueError it raises.  available is
\* one of the orders list_archetypes can produce.
load_archetype(reg, name, available) ==
    IF ~ManifestExists(reg, name)
    THEN [error |-> [type |-> "ValueError", archetype |-> name,
                     available |-> available]]
    ELSE [error |-> NoError, manifest |-> reg[name].manifest]

\* A loader that reads an absent template as empty text
load_template_lenient(reg, archetype, template_name) ==
    IF template_name \notin DOMAIN reg[archetype].templates
    THEN [error |-> NoError, text |-> <<>>]
    ELSE [error |-> NoError, text |-> reg[archetype].templates[template_name]]

\* load_template: the text, or the FileNotFoundError it raises
load_template(reg, archetype, template_name) ==
    IF template_name \notin DOMAIN reg[archetype].templates
    THEN [error |-> [type |-> "FileNotFoundError", template |-> template_name]]
    ELSE [error |-> NoError, text |-> reg[archetype].templates[template_name]]

(***************************************************************************)
(* Scaffolder                                                              *)
(***************************************************************************)

\* target_path / output_path for one File Spec
OutputPath(target_dir, file_spec, ctx) ==
    PathJoin(target_dir, RenderOutputPath(file_spec.output, ctx))

\* generated[layer] = path on a dict
DictSet(d, key, value) ==
    [k \in DOMAIN d \cup {key} |-> IF k = key THEN value ELSE d[k]]

\* One iteration of the loop over manifest['files'] on the filesystem
\* [fs, dirs]: the filesystem after it, and the exception raised, if any.
ScaffoldFile(reg, files, directories, args, file_spec) ==
    LET ctx       == BuildContext(args.name, args.description)
        tmpl      == load_template(reg, args.archetype, file_spec.template)
        file_path == OutputPath(args.target, file_spec, ctx)
    IN  IF tmpl.error.type # "None"
        THEN [fs |-> files, dirs |-> directories, error |-> tmpl.error]
        ELSE IF ~MkdirOk(files, file_path)
        THEN [fs |-> files, dirs |-> directories,
              error |-> [type |-> "FileExistsError"]]
        ELSE IF ~WriteOk(MkdirParents(directories, file_path), file_path)
        THEN [fs |-> files, dirs |-> MkdirParents(directories, file_path),
              error |-> [type |-> "IsADirectoryError"]]
        ELSE [fs |-> WriteText(files, file_path,
                               render_template(tmpl.text, ctx)),
              dirs |-> MkdirParents(directories, file_path),
              error |-> NoError]

(***************************************************************************)
(* CLI: main()                                                             *)
(***************************************************************************)

\* Nothing printed yet.  code is the exit code once the run has ended;
\* created is the N of "Created N files" once summary is TRUE.
NoOut == [code |-> 0, stderr |-> [prefix |-> "", exc |-> NoError],
          summary |-> FALSE, created |-> 0,
          updaterCalled |-> FALSE, updated |-> <<>>]

EmptyDict == <<>>

\* except Exception as e: print(f"Error: {e}", file=sys.stderr); sys.exit(1)
OnException(out, e) ==
    [out EXCEPT !.code = 1, !.stderr = [prefix |-> "Error:", exc |-> e]]

\* print(f"Created {len(generated)} files ...") and the normal return
Summary(out, gen) ==
    [out EXCEPT !.code = 0, !.summary = TRUE,
         !.created = Cardinality(DOMAIN gen)]

CurrentManifest == registry[cArgs.archetype].manifest

\* parse_args() and the banner: a run with --name and --description given
CliStart(args) ==
    /\ cpc = "idle"
    /\ ~args.list
    /\ args.name # <<>> /\ args.description # <<>>
    /\ cArgs' = args
    /\ cpc' = "load"
    /\ cSnap' = [begin |-> [fs |-> fs, dirs |-> dirs], ret |-> "none",
                 retFs |-> fs]
    /\ UNCHANGED <<fs, dirs, registry, cIdx, generated, written, cOut,
                   cPrev, cRuns>>
    /\ UNCHANGED <<renderVars, updVars, inst>>

\* --list-archetypes: prints every manifest and returns
CliList(args) ==
    /\ cpc = "idle"
    /\ args.list
    /\ cArgs' = args
    /\ \E order \in list_archetypes(registry) :
          cOut' = [NoOut EXCEPT !.code = 0, !.updated = order]
    /\ cpc' = "exit"
    /\ cSnap' = [begin |-> [fs |-> fs, dirs |-> dirs], ret |-> "none",
                 retFs |-> fs]
    /\ UNCHANGED <<fs, dirs, registry, cIdx, generated, written, cPrev, cRuns>>
    /\ UNCHANGED <<renderVars, updVars, inst>>

\* parser.error("--name and --description are required")
CliUsageError(args) ==
    /\ cpc = "idle"
    /\ ~args.list
    /\ args.name = <<>> \/ args.description = <<>>
    /\ cArgs' = args
    /\ cOut' = [NoOut EXCEPT !.code = 2]
    /\ cpc' = "exit"
    /\ cSnap' = [begin |-> [fs |-> fs, dirs |-> dirs], ret |-> "none",
                 retFs |-> fs]
    /\ UNCHANGED <<fs, dirs, registry, cIdx, generated, written, cPrev, cRuns>>
    /\ UNCHANGED <<renderVars, updVars, inst>>

\* manifest = load_archetype(args.archetype) in main, then the entry of
\* scaffold_feature up to its own load_archetype and generated = {}
CliLoadArchetype ==
    /\ cpc = "load"
    /\ \E order \in list_archetypes(registry) :
          LET m == load_archetype(registry, cArgs.archetype, order)
          IN  IF m.error.type # "None"
              THEN /\ cOut' = OnException(cOut, m.error)
                   /\ cpc' = "exit"
              ELSE /\ cOut' = cOut
                   /\ cpc' = "loop"
    /\ cIdx' = 1
    /\ generated' = EmptyDict
    /\ written' = <<>>
    /\ UNCHANGED <<fs, dirs, registry, cArgs, cSnap, cPrev, cRuns>>
    /\ UNCHANGED <<renderVars, updVars, inst>>

\* One iteration of: for file_spec in manifest['files']
CliScaffoldFile ==
    /\ cpc = "loop"
    /\ cIdx <= Len(CurrentManifest.files)
    /\ LET file_spec == CurrentManifest.files[cIdx]
           r == ScaffoldFile(registry, fs, dirs, cArgs, file_spec)
       IN  /\ fs' = r.fs
           /\ dirs' = r.dirs
           /\ IF r.error.type # "None"
              THEN /\ cOut' = OnException(cOut, r.error)
                   /\ cpc' = "exit"
                   /\ cSnap' = [cSnap EXCEPT !.ret = "raised", !.retFs = fs']
                   /\ UNCHANGED <<cIdx, generated, written>>
              ELSE /\ generated' =
                         DictSet(generated, file_spec.layer,
                                 OutputPath(cArgs.target, file_spec,
                                    BuildContext(cArgs.name, cArgs.description)))
                   /\ written' = Append(written, cIdx)
                   /\ cIdx' = cIdx + 1
                   /\ UNCHANGED <<cOut, cpc, cSnap>>
    /\ UNCHANGED <<registry, cArgs, cPrev, cRuns>>
    /\ UNCHANGED <<renderVars, updVars, inst>>

\* scaffold_feature returns; main prints the generated files and, unless
\* --no-mod-update, calls update_mod_files
CliUpdate ==
    /\ cpc = "loop"
    /\ cIdx > Len(CurrentManifest.files)
    /\ cSnap' = [cSnap EXCEPT !.ret = "returned", !.retFs = fs]
    /\ IF cArgs.no_mod_update
       THEN /\ cpc' = "summary"
            /\ UNCHANGED <<fs, dirs, cOut>>
       ELSE LET u == update_mod_files(fs, dirs, cArgs.target, cArgs.name,
                                      cArgs.archetype)
                out == [cOut EXCEPT !.updaterCalled = TRUE,
                                    !.updated = u.updated]
            IN  /\ fs' = u.fs
                /\ dirs' = u.dirs
                /\ IF u.error # None
                   THEN /\ cOut' = OnException(out, [type |-> u.error])
                        /\ cpc' = "exit"
                   ELSE /\ cOut' = out
                        /\ cpc' = "summary"
    /\ UNCHANGED <<registry, cArgs, cIdx, generated, written, cPrev, cRuns>>
    /\ UNCHANGED <<renderVars, updVars, inst>>

\* The completion summary
CliSummary ==
    /\ cpc = "summary"
    /\ cOut' = Summary(cOut, generated)
    /\ cpc' = "exit"
    /\ UNCHANGED <<fs, dirs, registry, cArgs, cIdx, generated, written, cSnap,
                   cPrev, cRuns>>
    /\ UNCHANGED <<renderVars, updVars, inst>>

\* A later invocation of the tool on the same filesystem
CliNewRun ==
    /\ cpc = "exit"
    /\ cRuns < MaxRuns
    /\ cRuns' = cRuns + 1
    /\ cpc' = "idle"
    /\ cPrev' = [valid |-> TRUE, args |-> cArgs, ret |-> cSnap.ret,
                 retFs |-> cSnap.retFs, generated |-> generated,
                 begin |-> cSnap.begin.fs]
    /\ cOut' = NoOut
    /\ generated' = EmptyDict
    /\ written' = <<>>
    /\ cIdx' = 1
    /\ UNCHANGED <<fs, dirs, registry, cArgs, cSnap>>
    /\ UNCHANGED <<renderVars, updVars, inst>>

(***************************************************************************)
(* Aggregator Updater, called directly                                     *)
(***************************************************************************)

UpdCall(target_dir, name, archetype) ==
    /\ uCalls < MaxCalls
    /\ LET st == update_mod_files(fs, dirs, target_dir, name, archetype)
       IN  /\ fs' = st.fs
           /\ dirs' = st.dirs
           /\ uRet' = [updated |-> st.updated, error |-> st.error]
           /\ uAccessed' = st.accessed
    /\ uPre' = [fs |-> fs, dirs |-> dirs]
    /\ uPrevArgs' = uArgs
    /\ uArgs' = [target |-> target_dir, name |-> name, archetype |-> archetype]
    /\ uCalls' = uCalls + 1
    /\ UNCHANGED uFresh
    /\ UNCHANGED <<renderVars, cliVars, inst>>

(***************************************************************************)
(* Aggregator Updater, two instances at once                               *)
(*                                                                         *)
(* inst[p] = [name, pc, i, updated, created]: instance p is at position pc *)
(* of the iteration over mod_files[i]; created lists the paths it wrote    *)
(* with write_text.                                                        *)
(***************************************************************************)

Instances == {1, 2}

ConcEntry(p) == ModFiles(ConcTarget, to_snake_case(inst[p].name))[inst[p].i]

\* The next iteration of the loop, or the return
NextFile(r) ==
    IF r.i < 3 THEN [r EXCEPT !.i = @ + 1, !.pc = "exists"]
    ELSE [r EXCEPT !.pc = "done"]

\* if mod_path.exists():
ConcExists(p) ==
    /\ inst[p].pc = "exists"
    /\ inst' = [inst EXCEPT ![p].pc =
                   IF PathExists(fs, dirs, ConcEntry(p)[2])
                   THEN "read" ELSE "mkdir"]
    /\ UNCHANGED <<fs, dirs>>
    /\ UNCHANGED <<renderVars, updVars, cliVars>>

\* content = mod_path.read_text(); if mod_line.strip() not in content:
ConcRead(p) ==
    /\ inst[p].pc = "read"
    /\ inst' = [inst EXCEPT ![p] =
                   IF LineMissing(ReadText(fs[ConcEntry(p)[2]]),
                                  ModLine(ConcEntry(p)[3]))
                   THEN [@ EXCEPT !.pc = "append"]
                   ELSE NextFile(@)]
    /\ UNCHANGED <<fs, dirs>>
    /\ UNCHANGED <<renderVars, updVars, cliVars>>

\* with open(mod_path, 'a') as f: f.write(mod_line); updated.append(...)
ConcAppend(p) ==
    /\ inst[p].pc = "append"
    /\ fs' = AppendText(fs, ConcEntry(p)[2], ModLine(ConcEntry(p)[3]))
    /\ inst' = [inst EXCEPT ![p] =
                   NextFile([@ EXCEPT !.updated = Append(@, ConcEntry(p)[2])])]
    /\ UNCHANGED dirs
    /\ UNCHANGED <<renderVars, updVars, cliVars>>

\* mod_path.parent.mkdir(parents=True, exist_ok=True)
ConcMkdir(p) ==
    /\ inst[p].pc = "mkdir"
    /\ dirs' = MkdirParents(dirs, ConcEntry(p)[2])
    /\ inst' = [inst EXCEPT ![p].pc = "write"]
    /\ UNCHANGED fs
    /\ UNCHANGED <<renderVars, updVars, cliVars>>

\* mod_path.write_text(mod_line); updated.append(...)
ConcWrite(p) ==
    /\ inst[p].pc = "write"
    /\ fs' = WriteText(fs, ConcEntry(p)[2], ModLine(ConcEntry(p)[3]))
    /\ inst' = [inst EXCEPT ![p] =
                   NextFile([@ EXCEPT !.updated = Append(@, ConcEntry(p)[2]),
                                      !.created = @ \cup {ConcEntry(p)[2]}])]
    /\ UNCHANGED dirs
    /\ UNCHANGED <<renderVars, updVars, cliVars>>

(***************************************************************************)
(* Template Renderer, called directly                                      *)
(***************************************************************************)

RenderContent ==
    /\ ~rendered.done
    /\ rendered' = [done |-> TRUE, text |-> render_template(template, context)]
    /\ UNCHANGED <<template, pattern, context, renderedPath>>
    /\ UNCHANGED <<fsVars, updVars, cliVars, inst>>

RenderPath ==
    /\ ~renderedPath.done
    /\ renderedPath' =
          [done |-> TRUE, text |-> RenderOutputPath(pattern, context)]
    /\ UNCHANGED <<template, pattern, context, rendered>>
    /\ UNCHANGED <<fsVars, updVars, cliVars, inst>>

(***************************************************************************)
(* Initial states                                                          *)
(***************************************************************************)

\* A filesystem holding the given files and the directories above them
FsOf(files) ==
    [fs |-> files, dirs |-> UNION {Parents(p) : p \in DOMAIN files}]

EmptyFs == <<>>

DomainMod(target_dir) == PathJoin(target_dir, <<"s", "r", "c", "/", "d", "o", "m", "a", "i", "n", "/", "m", "o", "d", ".", "r", "s">>)
PortsMod(target_dir) == PathJoin(target_dir, <<"s", "r", "c", "/", "p", "o", "r", "t", "s", "/", "m", "o", "d", ".", "r", "s">>)

\* Targets the Aggregator Updater may find
UpdInitFs ==
    { FsOf(EmptyFs),
      FsOf(DomainMod(<<"t">>) :> <<"p", "u", "b", " ", "m", "o", "d", " ", "a", "b", ";", "\n">>),
      FsOf(DomainMod(<<"t">>) :> <<"p", "u", "b", " ", "m", "o", "d", " ", "a", "_", "b", ";">> @@ PortsMod(<<"t">>) :> <<>>),
      FsOf(DomainMod(<<"t">>) :> <<"p", "u", "b", " ", "m", "o", "d", " ", "a", "b", ";", "\r", "\n">>),
      FsOf(DomainMod(<<"u">>) :> <<"p", "u", "b", " ", "m", "o", "d", " ", "a", ";", "b", ";", "\n">>) }

NoArgs == [target |-> <<>>, name |-> <<>>, archetype |-> ""]

IdleRender ==
    /\ template = <<>> /\ pattern = <<>> /\ context = <<>>
    /\ rendered = [done |-> TRUE, text |-> <<>>]
    /\ renderedPath = [done |-> TRUE, text |-> <<>>]

IdleUpd ==
    /\ uArgs = NoArgs /\ uPrevArgs = NoArgs
    /\ uRet = [updated |-> <<>>, error |-> None]
    /\ uPre = FsOf(EmptyFs)
    /\ uAccessed = {}
    /\ uCalls = MaxCalls
    /\ uFresh = FALSE

NoCliArgs == [name |-> <<>>, description |-> <<>>, archetype |-> "",
              target |-> <<>>, no_mod_update |-> FALSE, list |-> FALSE]

NoPrev == [valid |-> FALSE, args |-> NoCliArgs, ret |-> "none",
           retFs |-> EmptyFs, generated |-> EmptyDict, begin |-> EmptyFs]

IdleCli ==
    /\ registry = <<>>
    /\ cArgs = NoCliArgs
    /\ cpc = "off"
    /\ cIdx = 1
    /\ generated = EmptyDict
    /\ written = <<>>
    /\ cOut = NoOut
    /\ cSnap = [begin |-> FsOf(EmptyFs), ret |-> "none", retFs |-> EmptyFs]
    /\ cPrev = NoPrev
    /\ cRuns = MaxRuns

IdleConc == inst = <<>>

(***************************************************************************)
(* SpecRender: render_template and the output-path loop on drawn inputs    *)
(***************************************************************************)

Contexts ==
    {<<>>} \cup {BuildContext(n, d) : n \in RenderNames, d \in RenderDescriptions}

InitRender ==
    /\ fs = EmptyFs /\ dirs = {}
    /\ template \in Templates
    /\ pattern \in Patterns
    /\ context \in Contexts
    /\ rendered = [done |-> FALSE, text |-> <<>>]
    /\ renderedPath = [done |-> FALSE, text |-> <<>>]
    /\ IdleUpd /\ IdleCli /\ IdleConc

NextRender ==
    \/ RenderContent
    \/ RenderPath

SpecRender == InitRender /\ [][NextRender]_vars

(***************************************************************************)
(* SpecUpd: update_mod_files called again and again on one filesystem      *)
(***************************************************************************)

InitUpd ==
    /\ \E f \in UpdInitFs :
          /\ fs = f.fs
          /\ dirs = f.dirs
          /\ uPre = f
          /\ uFresh = (DOMAIN f.fs = {})
    /\ uArgs = NoArgs /\ uPrevArgs = NoArgs
    /\ uRet = [updated |-> <<>>, error |-> None]
    /\ uAccessed = {}
    /\ uCalls = 0
    /\ IdleRender /\ IdleCli /\ IdleConc

NextUpd ==
    \E t \in UpdTargets, n \in UpdNames, a \in ArchetypeNames :
        UpdCall(t, n, a)

SpecUpd == InitUpd /\ [][NextUpd]_vars

(***************************************************************************)
(* SpecConc: two update_mod_files calls running at once on one target      *)
(***************************************************************************)

ConcInitFs ==
    { FsOf(EmptyFs),
      FsOf(DomainMod(ConcTarget) :> <<"p", "u", "b", " ", "m", "o", "d", " ", "m", ";", "\n">>),
      FsOf(DomainMod(ConcTarget) :> <<"p", "u", "b", " ", "m", "o", "d", " ", "a", "b", ";", "\n">>
           @@ PortsMod(ConcTarget) :> <<>>) }

InitConc ==
    /\ \E f \in ConcInitFs : fs = f.fs /\ dirs = f.dirs
    /\ \E n1 \in ConcNames, n2 \in ConcNames :
          inst = [p \in Instances |->
                     [name |-> IF p = 1 THEN n1 ELSE n2, pc |-> "exists",
                      i |-> 1, updated |-> <<>>, created |-> {}]]
    /\ IdleRender /\ IdleUpd /\ IdleCli

NextConc ==
    \/ \E p \in DOMAIN inst : ConcExists(p)
    \/ \E p \in DOMAIN inst : ConcRead(p)
    \/ \E p \in DOMAIN inst : ConcAppend(p)
    \/ \E p \in DOMAIN inst : ConcMkdir(p)
    \/ \E p \in DOMAIN inst : ConcWrite(p)

SpecConc == InitConc /\ [][NextConc]_vars

(***************************************************************************)
(* SpecCli: runs of main(), one after another, on one filesystem           *)
(***************************************************************************)

HexFiles ==
    << [layer |-> "domain", template |-> "domain.rs.tmpl",
        output |-> <<"s", "r", "c", "/", "d", "o", "m", "a", "i", "n", "/", "{", "{", "n", "a", "m", "e", "}", "}", ".", "r", "s">>],
       [layer |-> "port", template |-> "port.rs.tmpl",
        output |-> <<"s", "r", "c", "/", "p", "o", "r", "t", "s", "/", "{", "{", "n", "a", "m", "e", "}", "}", "_", "p", "o", "r", "t", ".", "r", "s">>],
       [layer |-> "adapter", template |-> "adapter.rs.tmpl",
        output |-> <<"s", "r", "c", "/", "a", "d", "a", "p", "t", "e", "r", "s", "/", "{", "{", "n", "a", "m", "e", "}", "}", "_", "a", "d", "a", "p", "t", "e", "r", ".", "r", "s">>] >>

HexTemplates ==
    [t \in {"domain.rs.tmpl", "port.rs.tmpl", "adapter.rs.tmpl"} |->
        CASE t = "domain.rs.tmpl" -> <<"s", "t", "r", "u", "c", "t", " ", "{", "{", "p", "a", "s", "c", "a", "l", "_", "n", "a", "m", "e", "}", "}", ";", "\n">>
          [] t = "port.rs.tmpl" -> <<"t", "r", "a", "i", "t", " ", "{", "{", "p", "a", "s", "c", "a", "l", "_", "n", "a", "m", "e", "}", "}", "P", "o", "r", "t", ";", "\n">>
          [] t = "adapter.rs.tmpl" -> <<"/", "/", "{", "{", "d", "e", "s", "c", "r", "i", "p", "t", "i", "o", "n", "}", "}", "\n">>]

\* File lists a second archetype may declare: well formed, two File Specs
\* with one layer label, two with one output path, and one whose output is
\* a directory of the next.
PyFileLists ==
    { << [layer |-> "script", template |-> "script.py.tmpl",
          output |-> <<"{", "{", "n", "a", "m", "e", "}", "}", ".", "p", "y">>] >>,
      << [layer |-> "script", template |-> "script.py.tmpl",
          output |-> <<"{", "{", "n", "a", "m", "e", "}", "}", ".", "p", "y">>],
         [layer |-> "script", template |-> "test.py.tmpl",
          output |-> <<"t", "e", "s", "t", "_", "{", "{", "n", "a", "m", "e", "}", "}", ".", "p", "y">>] >>,
      << [layer |-> "script", template |-> "script.py.tmpl",
          output |-> <<"{", "{", "n", "a", "m", "e", "}", "}", ".", "p", "y">>],
         [layer |-> "test", template |-> "test.py.tmpl",
          output |-> <<"{", "{", "n", "a", "m", "e", "}", "}", ".", "p", "y">>] >>,
      << [layer |-> "script", template |-> "script.py.tmpl",
          output |-> <<"{", "{", "n", "a", "m", "e", "}", "}">>],
         [layer |-> "test", template |-> "test.py.tmpl",
          output |-> <<"{", "{", "n", "a", "m", "e", "}", "}", "/", "t", ".", "p", "y">>] >> }

PyTemplates ==
    [t \in {"script.py.tmpl", "test.py.tmpl"} |->
        CASE t = "script.py.tmpl" -> <<"#", "{", "{", "d", "e", "s", "c", "r", "i", "p", "t", "i", "o", "n", "}", "}", "\n">>
          [] t = "test.py.tmpl" -> <<"i", "m", "p", "o", "r", "t", " ", "{", "{", "n", "a", "m", "e", "}", "}", "\n">>]

\* Template files that may be absent from disk ("": none is)
MissingTemplates == {"", "domain.rs.tmpl", "adapter.rs.tmpl", "test.py.tmpl"}

Without(f, x) == [t \in DOMAIN f \ {x} |-> f[t]]

NoManifest == [name |-> "", files |-> <<>>]

RegistryOf(pyFiles, missing) ==
    [e \in {"rust_hexagonal", "python_script", "drafts", "README.md"} |->
        CASE e = "rust_hexagonal" ->
               [isDir |-> TRUE, hasManifest |-> TRUE,
                manifest |-> [name |-> "rust_hexagonal", files |-> HexFiles],
                templates |-> Without(HexTemplates, missing)]
          [] e = "python_script" ->
               [isDir |-> TRUE, hasManifest |-> TRUE,
                manifest |-> [name |-> "python_script", files |-> pyFiles],
                templates |-> Without(PyTemplates, missing)]
          [] e = "drafts" ->
               [isDir |-> TRUE, hasManifest |-> FALSE,
                manifest |-> NoManifest, templates |-> <<>>]
          [] e = "README.md" ->
               [isDir |-> FALSE, hasManifest |-> FALSE,
                manifest |-> NoManifest, templates |-> <<>>]]

\* The archetypes directory: every file list with all templates on disk,
\* and the first file list with one template file absent
Registries ==
    {RegistryOf(files, "") : files \in PyFileLists}
    \cup {RegistryOf(files, missing) :
             files \in {fl \in PyFileLists : Len(fl) = 2 /\ fl[2].layer = "script"},
             missing \in MissingTemplates \ {""}}

CliInitFs ==
    { FsOf(EmptyFs),
      FsOf(PathJoin(CliTarget, <<"s", "r", "c", "/", "d", "o", "m", "a", "i", "n", "/", "a", "b", ".", "r", "s">>) :> <<"o", "l", "d">>
           @@ DomainMod(CliTarget) :> <<"p", "u", "b", " ", "m", "o", "d", " ", "a", "b", ";", "\n">>
           @@ PathJoin(CliTarget, <<"a", "b", ".", "p", "y">>) :> <<"o", "l", "d", "\n">>),
      [fs |-> EmptyFs,
       dirs |-> {DomainMod(CliTarget)} \cup Parents(DomainMod(CliTarget))] }

CliRunArgs ==
    [name : CliNames, description : {<<"x">>},
     archetype : {"rust_hexagonal"},
     target : {CliTarget}, no_mod_update : BOOLEAN, list : {FALSE}]
    \cup
    [name : CliNames, description : {<<"x">>},
     archetype : {"python_script"},
     target : {CliTarget}, no_mod_update : {FALSE}, list : {FALSE}]
    \cup
    [name : {<<"a", "b">>}, description : {<<"x">>},
     archetype : {"foo", "drafts"},
     target : {CliTarget}, no_mod_update : {FALSE}, list : {FALSE}]

CliListArgs ==
    [name : {<<>>}, description : {<<>>}, archetype : {"rust_hexagonal"},
     target : {CliTarget}, no_mod_update : {FALSE}, list : {TRUE}]

CliUsageArgs ==
    [name : {<<>>}, description : {<<"x">>}, archetype : {"rust_hexagonal"},
     target : {CliTarget}, no_mod_update : {FALSE}, list : {FALSE}]
    \cup
    [name : {<<"a", "b">>}, description : {<<>>}, archetype : {"python_script"},
     target : {CliTarget}, no_mod_update : {FALSE}, list : {FALSE}]

InitCli ==
    /\ \E f \in CliInitFs :
          /\ fs = f.fs
          /\ dirs = f.dirs
          /\ cSnap = [begin |-> f, ret |-> "none", retFs |-> f.fs]
    /\ registry \in Registries
    /\ cArgs = NoCliArgs
    /\ cpc = "idle"
    /\ cIdx = 1
    /\ generated = EmptyDict
    /\ written = <<>>
    /\ cOut = NoOut
    /\ cPrev = NoPrev
    /\ cRuns = 1
    /\ IdleRender /\ IdleUpd /\ IdleConc

NextCli ==
    \/ \E a \in CliRunArgs : CliStart(a)
    \/ \E a \in CliListArgs : CliList(a)
    \/ \E a \in CliUsageArgs : CliUsageError(a)
    \/ CliLoadArchetype
    \/ CliScaffoldFile
    \/ CliUpdate
    \/ CliSummary
    \/ CliNewRun

SpecCli == InitCli /\ [][NextCli]_vars

\* Every specification of the module, side by side
Init == InitRender \/ InitUpd \/ InitConc \/ InitCli

Next == NextRender \/ NextUpd \/ NextConc \/ NextCli

Spec == Init /\ [][Next]_vars

(***************************************************************************)
(* Properties of the Aggregator Updater (SpecUpd)                          *)
(***************************************************************************)

\* The registration line of a layer for a normalized name, without newline
RegLine(layer, n) ==
    <<"p", "u", "b", " ", "m", "o", "d", " ">> \o n \o
    (CASE layer = "domain" -> <<>>
       [] layer = "ports" -> <<"_", "p", "o", "r", "t">>
       [] layer = "adapters" -> <<"_", "a", "d", "a", "p", "t", "e", "r">>) \o <<";">>

\* The aggregator files of the last call: <<layer, path>>
AggregatorFiles(target_dir) ==
    << <<"domain", PathJoin(target_dir, <<"s", "r", "c", "/", "d", "o", "m", "a", "i", "n", "/", "m", "o", "d", ".", "r", "s">>)>>,
       <<"ports", PathJoin(target_dir, <<"s", "r", "c", "/", "p", "o", "r", "t", "s", "/", "m", "o", "d", ".", "r", "s">>)>>,
       <<"adapters", PathJoin(target_dir, <<"s", "r", "c", "/", "a", "d", "a", "p", "t", "e", "r", "s", "/", "m", "o", "d", ".", "r", "s">>)>> >>

\* The lines of a file's text
LinesOf(data) == Split(data, "\n")

\* How many of the lines of data are the given line
Occurrences(data, line) ==
    Cardinality({i \in DOMAIN LinesOf(data) : LinesOf(data)[i] = line})

IsPrefix(a, b) == Len(a) <= Len(b) /\ SubSeq(b, 1, Len(a)) = a

\* The last call changed this path
Changed(path) ==
    path \notin DOMAIN uPre.fs \/ fs[path] # uPre.fs[path]

LastCallHexagonal == uCalls >= 1 /\ uArgs.archetype = "rust_hexagonal"

\* C1: when update_mod_files is called twice in a row with the same
\* arguments, the second call returns an empty list and leaves every file as
\* the first call left it.
C1_SecondCallIsNoOp ==
    (uCalls >= 2 /\ uArgs = uPrevArgs) =>
        (uRet.updated = <<>> /\ fs = uPre.fs)

\* The same, for feature names without a carriage return
C1_SecondCallIsNoOpWithoutCR ==
    (uCalls >= 2 /\ uArgs = uPrevArgs /\ "\r" \notin Range(uArgs.name)) =>
        (uRet.updated = <<>> /\ fs = uPre.fs)

\* C2: after a call for rust_hexagonal every aggregator file exists and
\* contains its registration line, the returned list is exactly the paths the
\* call created or appended to, and a file that already contained its line
\* is neither modified nor returned.
C2_RegisteredAndReported ==
    LastCallHexagonal =>
        LET files == AggregatorFiles(uArgs.target)
            n     == to_snake_case(uArgs.name)
        IN  /\ \A i \in 1..3 :
                  /\ files[i][2] \in DOMAIN fs
                  /\ Contains(fs[files[i][2]], RegLine(files[i][1], n))
                  /\ (/\ files[i][2] \in DOMAIN uPre.fs
                      /\ Contains(uPre.fs[files[i][2]], RegLine(files[i][1], n)))
                     => (/\ ~Changed(files[i][2])
                         /\ files[i][2] \notin Range(uRet.updated))
            /\ uRet.updated =
                  SelectSeq([i \in 1..3 |-> files[i][2]], Changed)

\* The same, for feature names without a carriage return
C2_RegisteredAndReportedWithoutCR ==
    "\r" \notin Range(uArgs.name) => C2_RegisteredAndReported

\* C3: starting with no aggregator file, every call leaves a file's previous
\* content as a prefix and appends at most its one registration line, only
\* when that line is not already there, and no line occurs twice in a file.
C3_AppendOnlyNoDuplicates ==
    (uFresh /\ uCalls >= 1) =>
        /\ \A path \in DOMAIN uPre.fs : IsPrefix(uPre.fs[path], fs[path])
        /\ LastCallHexagonal =>
              \A i \in 1..3 :
                 LET path == AggregatorFiles(uArgs.target)[i][2]
                     line == RegLine(AggregatorFiles(uArgs.target)[i][1],
                                     to_snake_case(uArgs.name))
                     old  == IF path \in DOMAIN uPre.fs
                             THEN uPre.fs[path] ELSE <<>>
                 IN  /\ fs[path] \in {old, old \o line \o <<"\n">>}
                     /\ fs[path] # old => Occurrences(old, line) = 0
        /\ \A path \in DOMAIN fs :
              \A i \in DOMAIN LinesOf(fs[path]) :
                 LinesOf(fs[path])[i] # <<>> =>
                    Occurrences(fs[path], LinesOf(fs[path])[i]) = 1

\* The same, for feature names without a carriage return
C3_AppendOnlyNoDuplicatesWithoutCR ==
    (\/ "\r" \in Range(uArgs.name)
     \/ \E path \in DOMAIN fs : "\r" \in Range(fs[path]))
    \/ C3_AppendOnlyNoDuplicates

\* C9: for an archetype other than rust_hexagonal the call returns an empty
\* list and looks at, creates and modifies nothing.
C9_OtherArchetypeIsNoOp ==
    (uCalls >= 1 /\ uArgs.archetype # "rust_hexagonal") =>
        /\ uRet = [updated |-> <<>>, error |-> None]
        /\ fs = uPre.fs
        /\ dirs = uPre.dirs
        /\ uAccessed = {}

\* A call for another archetype has returned on a target whose aggregator
\* files a rust_hexagonal call would have created or appended to.
C9_Witness ==
    /\ uCalls >= 1
    /\ uArgs.archetype = "python_script"
    /\ \E i \in 1..3 :
          LET path == AggregatorFiles(uArgs.target)[i][2]
          IN  \/ path \notin DOMAIN fs
              \/ ~Contains(fs[path], RegLine(AggregatorFiles(uArgs.target)[i][1],
                                             to_snake_case(uArgs.name)))

(***************************************************************************)
(* Properties of concurrent Aggregator Updaters (SpecConc)                 *)
(***************************************************************************)

\* The registration line instance p writes to the i-th aggregator file
ConcLine(p, i) ==
    RegLine(AggregatorFiles(ConcTarget)[i][1], to_snake_case(inst[p].name))

ConcPath(i) == AggregatorFiles(ConcTarget)[i][2]

\* The i-th aggregator file holds a line twice
DuplicateIn(i) ==
    /\ ConcPath(i) \in DOMAIN fs
    /\ \E k \in DOMAIN LinesOf(fs[ConcPath(i)]) :
          /\ LinesOf(fs[ConcPath(i)])[k] # <<>>
          /\ Occurrences(fs[ConcPath(i)], LinesOf(fs[ConcPath(i)])[k]) >= 2

\* Instance p reported the i-th aggregator file as updated, and its line is
\* not in the file
LostLine(p, i) ==
    /\ ConcPath(i) \in Range(inst[p].updated)
    /\ Occurrences(fs[ConcPath(i)], ConcLine(p, i)) = 0

\* C10: nothing orders the check and the write of one instance against the
\* other instance: a file holds a line twice only when both instances found
\* that same line absent and both wrote it, and a line an instance wrote is
\* gone only when the other instance created the file over it.
C10_RaceOutcomes ==
    \A i \in 1..3 :
        /\ DuplicateIn(i) =>
              /\ \A p \in DOMAIN inst : ConcPath(i) \in Range(inst[p].updated)
              /\ ConcLine(1, i) = ConcLine(2, i)
              /\ Occurrences(fs[ConcPath(i)], ConcLine(1, i)) = 2
        /\ \A p \in DOMAIN inst :
              LostLine(p, i) =>
                 \E q \in DOMAIN inst \ {p} : ConcPath(i) \in inst[q].created

\* Both instances have returned and an aggregator file holds the same
\* registration line twice.
C10_DuplicateReached ==
    /\ \A p \in DOMAIN inst : inst[p].pc = "done"
    /\ \E i \in 1..3 : DuplicateIn(i)

\* Both instances have returned, one reported a file as updated, and the
\* line it wrote was overwritten by the other instance creating the file.
C10_LostLineReached ==
    /\ \A p \in DOMAIN inst : inst[p].pc = "done"
    /\ \E i \in 1..3, p \in DOMAIN inst : LostLine(p, i)

(***************************************************************************)
(* Properties of the Template Renderer (SpecRender)                        *)
(***************************************************************************)

\* The keys of ctx whose token '{{key}}' stands at position i of text
TokensAt(text, ctx, i) ==
    {k \in DOMAIN ctx : StartsAt(text, Token(ctx[k][1]), i)}

RECURSIVE SubstituteFrom(_, _, _)
SubstituteFrom(text, ctx, i) ==
    IF i > Len(text) THEN <<>>
    ELSE IF TokensAt(text, ctx, i) # {}
         THEN LET k == CHOOSE k \in TokensAt(text, ctx, i) : TRUE
              IN  ctx[k][2]
                  \o SubstituteFrom(text, ctx, i + Len(Token(ctx[k][1])))
         ELSE <<text[i]>> \o SubstituteFrom(text, ctx, i + 1)

\* text with every '{{key}}' token that stands in it replaced by the key's
\* value, and every other character kept
Substituted(text, ctx) == SubstituteFrom(text, ctx, 1)

\* C8: render_template gives the template with each '{{key}}' token present
\* in the template replaced by the key's value and everything else verbatim,
\* whatever the values are; the output path is computed by the same rule.
C8_RenderIsTokenSubstitution ==
    /\ rendered.done /\ template # <<>> =>
          rendered.text = Substituted(template, context)
    /\ renderedPath.done /\ pattern # <<>> =>
          renderedPath.text = Substituted(pattern, context)

\* The same, for values that hold neither '{' nor '}'
C8_RenderIsTokenSubstitutionPlainValues ==
    (\A k \in DOMAIN context :
        Range(context[k][2]) \cap {"{", "}"} = {}) =>
    C8_RenderIsTokenSubstitution

(***************************************************************************)
(* Properties of the Scaffolder and the CLI (SpecCli)                      *)
(***************************************************************************)

\* The run in progress got past argument parsing into the try block
RunInTry ==
    /\ cpc \in {"load", "loop", "summary", "exit"}
    /\ ~cArgs.list
    /\ cArgs.name # <<>> /\ cArgs.description # <<>>

\* The archetypes that have a manifest on disk
WithManifest ==
    {d \in DOMAIN registry : registry[d].isDir /\ registry[d].hasManifest}

\* The File Specs of the requested archetype
SpecsOf(args) == registry[args.archetype].manifest.files

\* The path the j-th File Spec is written to
PathOf(args, j) ==
    args.target \o <<"/">>
    \o RenderOutputPath(SpecsOf(args)[j].output,
                        BuildContext(args.name, args.description))

\* The text the j-th File Spec is rendered to
TextOf(args, j) ==
    render_template(
        registry[args.archetype].templates[SpecsOf(args)[j].template],
        BuildContext(args.name, args.description))

TemplateOnDisk(args, j) ==
    SpecsOf(args)[j].template \in DOMAIN registry[args.archetype].templates

\* The last of the File Specs 1..k that is written to the path of spec j
LastWriter(args, j, k) ==
    CHOOSE m \in 1..k :
        /\ PathOf(args, m) = PathOf(args, j)
        /\ \A m2 \in (m + 1)..k : PathOf(args, m2) # PathOf(args, j)

\* C4: when scaffold_feature fails at the k-th File Spec, the files of File
\* Specs 1..k-1 are written and stay, no File Spec from k on is written, the
\* CLI prints the error with prefix "Error:" and exits with code 1, and the
\* Aggregator Updater is not invoked; a missing template is such a failure.
C4_PartialFailure ==
    (RunInTry /\ cArgs.archetype \in WithManifest) =>
        /\ \A j \in Range(written) : TemplateOnDisk(cArgs, j)
        /\ (cpc = "exit" /\ cSnap.ret = "raised") =>
              /\ written = [j \in 1..(cIdx - 1) |-> j]
              /\ \A j \in 1..(cIdx - 1) :
                    /\ PathOf(cArgs, j) \in DOMAIN fs
                    /\ fs[PathOf(cArgs, j)] =
                          TextOf(cArgs, LastWriter(cArgs, j, cIdx - 1))
              /\ \A j \in cIdx..Len(SpecsOf(cArgs)) :
                    PathOf(cArgs, j) \notin
                        {PathOf(cArgs, m) : m \in 1..(cIdx - 1)} =>
                    /\ PathOf(cArgs, j) \in DOMAIN fs
                          <=> PathOf(cArgs, j) \in DOMAIN cSnap.begin.fs
                    /\ PathOf(cArgs, j) \in DOMAIN fs =>
                          fs[PathOf(cArgs, j)] = cSnap.begin.fs[PathOf(cArgs, j)]
              /\ cOut.code = 1
              /\ cOut.stderr.prefix = "Error:"
              /\ ~cOut.updaterCalled
              /\ ~cOut.summary
        /\ (cpc = "exit"
            /\ \E j \in DOMAIN SpecsOf(cArgs) : ~TemplateOnDisk(cArgs, j)) =>
              /\ cSnap.ret = "raised"
              /\ ~TemplateOnDisk(cArgs, cIdx) =>
                    cOut.stderr.exc.type = "FileNotFoundError"

\* A run has failed on the template of its third File Spec, with two files
\* written before it.
C4_Witness ==
    /\ cpc = "exit"
    /\ cSnap.ret = "raised"
    /\ cIdx = 3
    /\ cOut.stderr.exc.type = "FileNotFoundError"
    /\ Len(written) = 2

\* C5: when no manifest exists for the requested archetype, load_archetype
\* fails with an error that lists the names of all available archetypes,
\* nothing is created or written, the CLI exits with code 1 and the
\* Aggregator Updater is not invoked.
C5_UnknownArchetype ==
    (RunInTry /\ cArgs.archetype \notin WithManifest) =>
        /\ cpc \in {"load", "exit"}
        /\ fs = cSnap.begin.fs
        /\ dirs = cSnap.begin.dirs
        /\ cpc = "exit" =>
              /\ cOut.code = 1
              /\ cOut.stderr.prefix = "Error:"
              /\ cOut.stderr.exc.type = "ValueError"
              /\ cOut.stderr.exc.archetype = cArgs.archetype
              /\ Range(cOut.stderr.exc.available) =
                    {registry[d].manifest.name : d \in WithManifest}
              /\ Len(cOut.stderr.exc.available) = Cardinality(WithManifest)
              /\ ~cOut.updaterCalled
              /\ ~cOut.summary

\* A run that asked for a directory without a manifest has ended, on a
\* target that holds files.
C5_Witness ==
    /\ cpc = "exit"
    /\ cArgs.archetype = "drafts"
    /\ cOut.code = 1
    /\ DOMAIN fs # {}

\* Two runs took the same name, description, archetype and target
SameScaffoldArgs(a, b) ==
    /\ a.name = b.name /\ a.description = b.description
    /\ a.archetype = b.archetype /\ a.target = b.target

\* scaffold_feature has returned in this run and in the run before it, and
\* both were given the same arguments
ScaffoldedTwice ==
    /\ cpc \in {"summary", "exit"}
    /\ cSnap.ret = "returned"
    /\ cPrev.valid /\ cPrev.ret = "returned"
    /\ SameScaffoldArgs(cPrev.args, cArgs)

\* C6: scaffold_feature called twice with the same arguments returns the same
\* layer-to-path mapping and leaves the same bytes in every generated file,
\* whatever was at the output paths before the first call.
C6_ScaffoldTwiceSame ==
    ScaffoldedTwice =>
        /\ generated = cPrev.generated
        /\ \A j \in DOMAIN SpecsOf(cArgs) :
              /\ PathOf(cArgs, j) \in DOMAIN cSnap.retFs
              /\ PathOf(cArgs, j) \in DOMAIN cPrev.retFs
              /\ cSnap.retFs[PathOf(cArgs, j)] = cPrev.retFs[PathOf(cArgs, j)]

\* The first of the two calls found another file at one of its output paths.
C6_Witness ==
    /\ ScaffoldedTwice
    /\ \E j \in DOMAIN SpecsOf(cArgs) :
          /\ PathOf(cArgs, j) \in DOMAIN cPrev.begin
          /\ cPrev.begin[PathOf(cArgs, j)] # cSnap.retFs[PathOf(cArgs, j)]

\* C7: the N of "Created N files" is the number of files the Scaffolder
\* wrote in the run.
C7_CreatedCountsFiles ==
    cOut.summary =>
        cOut.created = Cardinality({PathOf(cArgs, j) : j \in Range(written)})

\* The same, for a manifest whose File Specs have distinct layer labels and
\* distinct output paths
C7_CreatedCountsFilesDistinct ==
    (/\ cOut.summary
     /\ \A i, j \in DOMAIN SpecsOf(cArgs) :
           i # j => /\ SpecsOf(cArgs)[i].layer # SpecsOf(cArgs)[j].layer
                    /\ PathOf(cArgs, i) # PathOf(cArgs, j))
    => C7_CreatedCountsFiles

====
